---- MODULE Spec2Model ----
(***************************************************************************)
(* Model of pulltime (src/main.go): the concurrent benchmark runner, the   *)
(* warmup loop, the summary aggregator, the registry classifier and the    *)
(* docker output scraper.                                                  *)
(***************************************************************************)
EXTENDS Integers, Sequences, FiniteSets, TLC

\* ---------------------------------------------------------------- bounds
MaxImages == 3
MaxFairImages == 2
MaxIterations == 4
MaxResults == 3
MaxMs == 2
MaxRefLen == 4
MaxLines == 3

\* ------------------------------------------------------------- constants
\* line 331: the default of --concurrent
DefaultConcurrency == 2

\* error strings the Go runtime produces
NoError == ""
ExitError == "exit status 1"
KilledError == "signal: killed"
DeadlineExceeded == "context deadline exceeded"

\* the command line: refs repeat, and a ref may be given more than once
ImageList == <<"a", "b", "a", "b", "a", "b", "a", "b">>

VARIABLES
    \* benchmarkCmd.Run
    images,       \* args
    concurrency,  \* flag --concurrent
    mainPc,       \* position of the main goroutine
    dispatched,   \* number of loop iterations of line 57 already run
    wgCount,      \* counter of the WaitGroup
    semLen,       \* number of elements buffered in sem
    mu,           \* resultsMu: 0 when unlocked, else the worker holding it
    results,      \* the shared slice
    snap,         \* per worker: the slice value line 88 has read, not yet written back
    pc,           \* position of each worker goroutine
    expired,      \* per worker: the deadline of ctx has elapsed
    cmdErr,       \* per worker: err returned by CombinedOutput
    res,          \* per worker: the Result under construction
    \* warmupCmd.Run
    wIterations,  \* flag --iterations
    wI,           \* loop variable i
    wPc,          \* position in the loop body
    wErr,         \* err of the pull of this iteration
    wLog,         \* the external commands run so far, in order
    wResults,     \* the results slice
    \* printSummary
    sResults,     \* the argument
    sPc,          \* position in printSummary
    sI,           \* loop index i
    sSuccess,     \* success
    sMin,         \* min
    sMax,         \* max
    sSum,         \* sum
    sOut,         \* what line 327 prints
    \* parseRegistry
    rImage,       \* the argument, a string as the sequence of its characters
    rPc,          \* "call" before the call, "done" after it
    rOut,         \* the value returned
    \* parseDockerOutput
    oOutput,      \* the argument output, a string as the sequence of its characters
    oPc,          \* position in parseDockerOutput
    oLines,       \* splitLines(output)
    oI,           \* number of lines already processed
    oLayers,      \* layers
    oBytes,       \* bytes
    oRes          \* the fields of *res the function writes

benchVars == <<images, concurrency, mainPc, dispatched, wgCount, semLen, mu,
               results, snap, pc, expired, cmdErr, res>>

warmVars == <<wIterations, wI, wPc, wErr, wLog, wResults>>

sumVars == <<sResults, sPc, sI, sSuccess, sMin, sMax, sSum, sOut>>

regVars == <<rImage, rPc, rOut>>

scrapeVars == <<oOutput, oPc, oLines, oI, oLayers, oBytes, oRes>>

vars == <<benchVars, warmVars, sumVars, regVars, scrapeVars>>

otherThanBench == <<warmVars, sumVars, regVars, scrapeVars>>
otherThanWarm == <<benchVars, sumVars, regVars, scrapeVars>>
otherThanSum == <<benchVars, warmVars, regVars, scrapeVars>>
otherThanReg == <<benchVars, warmVars, sumVars, scrapeVars>>
otherThanScrape == <<benchVars, warmVars, sumVars, regVars>>

Workers == 1..Len(images)

EmptyResult(img) == [Image |-> img, Success |-> FALSE, Error |-> NoError]

\* ------------------------------------------------------- benchmarkCmd.Run
BenchInit ==
    /\ \E n \in 1..MaxImages : images = SubSeq(ImageList, 1, n)
    /\ concurrency \in (-1)..DefaultConcurrency
    /\ mainPc = "start"
    /\ dispatched = 0
    /\ wgCount = 0
    /\ semLen = 0
    /\ mu = 0
    /\ results = <<>>
    /\ snap = [w \in Workers |-> <<>>]
    /\ pc = [w \in Workers |-> "idle"]
    /\ expired = [w \in Workers |-> FALSE]
    /\ cmdErr = [w \in Workers |-> NoError]
    /\ res = [w \in Workers |-> EmptyResult(images[w])]

\* the benchmark command is not the one invoked
BenchOff ==
    /\ images = <<>>
    /\ concurrency = DefaultConcurrency
    /\ mainPc = "off"
    /\ dispatched = 0
    /\ wgCount = 0
    /\ semLen = 0
    /\ mu = 0
    /\ results = <<>>
    /\ snap = <<>>
    /\ pc = <<>>
    /\ expired = <<>>
    /\ cmdErr = <<>>
    /\ res = <<>>

\* line 56: make(chan struct{}, concurrency) panics on a negative size
MakeSem ==
    /\ mainPc = "start"
    /\ mainPc' = IF concurrency < 0 THEN "panic" ELSE "dispatch"
    /\ UNCHANGED <<images, concurrency, dispatched, wgCount, semLen, mu, results,
                   snap, pc, expired, cmdErr, res>>
    /\ UNCHANGED otherThanBench

\* lines 57-59: wg.Add(1); go func(imageURL)
Dispatch ==
    /\ mainPc = "dispatch"
    /\ dispatched < Len(images)
    /\ dispatched' = dispatched + 1
    /\ wgCount' = wgCount + 1
    /\ pc' = [pc EXCEPT ![dispatched + 1] = "sem"]
    /\ UNCHANGED <<images, concurrency, mainPc, semLen, mu, results, snap,
                   expired, cmdErr, res>>
    /\ UNCHANGED otherThanBench

\* line 57: the range loop ends
DispatchEnd ==
    /\ mainPc = "dispatch"
    /\ dispatched = Len(images)
    /\ mainPc' = "wait"
    /\ UNCHANGED <<images, concurrency, dispatched, wgCount, semLen, mu, results,
                   snap, pc, expired, cmdErr, res>>
    /\ UNCHANGED otherThanBench

\* line 93: wg.Wait() returns when the counter is zero
WgWait ==
    /\ mainPc = "wait"
    /\ wgCount = 0
    /\ mainPc' = "returned"
    /\ UNCHANGED <<images, concurrency, dispatched, wgCount, semLen, mu, results,
                   snap, pc, expired, cmdErr, res>>
    /\ UNCHANGED otherThanBench

\* line 61: sem <- struct{}{} blocks while the buffer is full (an unbuffered
\* channel never takes the send: no goroutine receives before it has sent);
\* line 62: the context and its deadline start here
\* a gate that never blocks
SemNeverBlocks == TRUE

SemCanSend == semLen < concurrency

Acquire(w) ==
    /\ pc[w] = "sem"
    /\ SemCanSend
    /\ semLen' = semLen + 1
    /\ pc' = [pc EXCEPT ![w] = "pull"]
    /\ UNCHANGED <<images, concurrency, mainPc, dispatched, wgCount, mu, results,
                   snap, expired, cmdErr, res>>
    /\ UNCHANGED otherThanBench

\* the timer of context.WithTimeout fires; only firings up to the last read of
\* ctx.Err() (line 82) can be observed
DeadlineElapses(w) ==
    /\ pc[w] \in {"pull", "build", "seterr"}
    /\ ~expired[w]
    /\ expired' = [expired EXCEPT ![w] = TRUE]
    /\ UNCHANGED <<images, concurrency, mainPc, dispatched, wgCount, semLen, mu,
                   results, snap, pc, cmdErr, res>>
    /\ UNCHANGED otherThanBench

\* lines 66-67: the command exits by itself (status 0 or not), or is killed by
\* exec.CommandContext once the deadline has elapsed
CmdOutcomes(isExpired) ==
    {NoError, ExitError} \cup (IF isExpired THEN {KilledError} ELSE {})

PullReturn(w) ==
    /\ pc[w] = "pull"
    /\ \E e \in CmdOutcomes(expired[w]) :
          cmdErr' = [cmdErr EXCEPT ![w] = e]
    /\ pc' = [pc EXCEPT ![w] = "build"]
    /\ UNCHANGED <<images, concurrency, mainPc, dispatched, wgCount, semLen, mu,
                   results, snap, expired, res>>
    /\ UNCHANGED otherThanBench

\* line 73: Success: err == nil && ctx.Err() == nil
SuccessOf(err, ctxDone) == err = NoError /\ ~ctxDone

BuildResult(w) ==
    /\ pc[w] = "build"
    /\ res' = [res EXCEPT ![w].Success = SuccessOf(cmdErr[w], expired[w])]
    /\ pc' = [pc EXCEPT ![w] = "seterr"]
    /\ UNCHANGED <<images, concurrency, mainPc, dispatched, wgCount, semLen, mu,
                   results, snap, expired, cmdErr>>
    /\ UNCHANGED otherThanBench

\* the two assignments of lines 79-84 in the other order
ErrorOfErrLast(err, ctxDone) ==
    IF err # NoError THEN err
    ELSE IF ctxDone THEN DeadlineExceeded
    ELSE NoError

\* lines 79-84: res.Error from err, then overwritten from ctx.Err(); err and
\* ctx are not read again, the model forgets them here
ErrorOf(err, ctxDone) ==
    IF ctxDone THEN DeadlineExceeded ELSE err

SetError(w) ==
    /\ pc[w] = "seterr"
    /\ res' = [res EXCEPT ![w].Error = ErrorOf(cmdErr[w], expired[w])]
    /\ pc' = [pc EXCEPT ![w] = "lock"]
    /\ expired' = [expired EXCEPT ![w] = FALSE]
    /\ cmdErr' = [cmdErr EXCEPT ![w] = NoError]
    /\ UNCHANGED <<images, concurrency, mainPc, dispatched, wgCount, semLen, mu,
                   results, snap>>
    /\ UNCHANGED otherThanBench

\* a lock that excludes nobody
MuNeverHeld == TRUE

\* line 87: resultsMu.Lock()
MuFree == mu = 0

Lock(w) ==
    /\ pc[w] = "lock"
    /\ MuFree
    /\ mu' = w
    /\ pc' = [pc EXCEPT ![w] = "read"]
    /\ UNCHANGED <<images, concurrency, mainPc, dispatched, wgCount, semLen,
                   results, snap, expired, cmdErr, res>>
    /\ UNCHANGED otherThanBench

\* line 88, right-hand side: append(results, res) reads the slice
ReadResults(w) ==
    /\ pc[w] = "read"
    /\ snap' = [snap EXCEPT ![w] = results]
    /\ pc' = [pc EXCEPT ![w] = "write"]
    /\ UNCHANGED <<images, concurrency, mainPc, dispatched, wgCount, semLen, mu,
                   results, expired, cmdErr, res>>
    /\ UNCHANGED otherThanBench

\* line 88, assignment: results = ...; res is not read again
AppendResult(rs, r) == Append(rs, r)

WriteResults(w) ==
    /\ pc[w] = "write"
    /\ results' = AppendResult(snap[w], res[w])
    /\ snap' = [snap EXCEPT ![w] = <<>>]
    /\ res' = [res EXCEPT ![w] = EmptyResult(images[w])]
    /\ pc' = [pc EXCEPT ![w] = "unlock"]
    /\ UNCHANGED <<images, concurrency, mainPc, dispatched, wgCount, semLen, mu,
                   expired, cmdErr>>
    /\ UNCHANGED otherThanBench

\* line 89: resultsMu.Unlock()
Unlock(w) ==
    /\ pc[w] = "unlock"
    /\ mu' = 0
    /\ pc' = [pc EXCEPT ![w] = "release"]
    /\ UNCHANGED <<images, concurrency, mainPc, dispatched, wgCount, semLen,
                   results, snap, expired, cmdErr, res>>
    /\ UNCHANGED otherThanBench

\* a worker that ends without receiving from sem
ReleaseKeepsSlot(w) ==
    /\ pc[w] = "release"
    /\ pc' = [pc EXCEPT ![w] = "exit"]
    /\ UNCHANGED <<images, concurrency, mainPc, dispatched, wgCount, semLen, mu,
                   results, snap, expired, cmdErr, res>>
    /\ UNCHANGED otherThanBench

\* line 90: <-sem
Release(w) ==
    /\ pc[w] = "release"
    /\ semLen' = semLen - 1
    /\ pc' = [pc EXCEPT ![w] = "exit"]
    /\ UNCHANGED <<images, concurrency, mainPc, dispatched, wgCount, mu, results,
                   snap, expired, cmdErr, res>>
    /\ UNCHANGED otherThanBench

\* lines 60, 63: the deferred cancel() and wg.Done() run
WorkerExit(w) ==
    /\ pc[w] = "exit"
    /\ wgCount' = wgCount - 1
    /\ pc' = [pc EXCEPT ![w] = "done"]
    /\ UNCHANGED <<images, concurrency, mainPc, dispatched, semLen, mu, results,
                   snap, expired, cmdErr, res>>
    /\ UNCHANGED otherThanBench

Worker(w) ==
    \/ Acquire(w)
    \/ PullReturn(w)
    \/ BuildResult(w)
    \/ SetError(w)
    \/ Lock(w)
    \/ ReadResults(w)
    \/ WriteResults(w)
    \/ Unlock(w)
    \/ Release(w)
    \/ WorkerExit(w)

Main == MakeSem \/ Dispatch \/ DispatchEnd \/ WgWait

Next ==
    \/ MakeSem
    \/ Dispatch
    \/ DispatchEnd
    \/ WgWait
    \/ \E w \in Workers : Acquire(w)
    \/ \E w \in Workers : DeadlineElapses(w)
    \/ \E w \in Workers : PullReturn(w)
    \/ \E w \in Workers : BuildResult(w)
    \/ \E w \in Workers : SetError(w)
    \/ \E w \in Workers : Lock(w)
    \/ \E w \in Workers : ReadResults(w)
    \/ \E w \in Workers : WriteResults(w)
    \/ \E w \in Workers : Unlock(w)
    \/ \E w \in Workers : Release(w)
    \/ \E w \in Workers : WorkerExit(w)

\* ---------------------------------------------------------- warmupCmd.Run
WarmInit ==
    /\ wIterations \in 0..MaxIterations
    /\ wI = 1
    /\ wPc = "top"
    /\ wErr = NoError
    /\ wLog = <<>>
    /\ wResults = <<>>

WarmOff ==
    /\ wIterations = 0
    /\ wI = 0
    /\ wPc = "off"
    /\ wErr = NoError
    /\ wLog = <<>>
    /\ wResults = <<>>

\* lines 207-211: loop condition, docker rmi -f before the first pull
RemoveBefore(i) == i = 1

WarmTop ==
    /\ wPc = "top"
    /\ wI <= wIterations
    /\ wLog' = IF RemoveBefore(wI) THEN Append(wLog, "rmi") ELSE wLog
    /\ wPc' = "pull"
    /\ UNCHANGED <<wIterations, wI, wErr, wResults>>
    /\ UNCHANGED otherThanWarm

\* lines 212-214: docker pull; a failure is kept in err
WarmPull ==
    /\ wPc = "pull"
    /\ wLog' = Append(wLog, "pull")
    /\ wErr' \in {NoError, ExitError}
    /\ wPc' = "record"
    /\ UNCHANGED <<wIterations, wI, wResults>>
    /\ UNCHANGED otherThanWarm

\* lines 215-218
CacheState(i) == IF i > 1 THEN "warm" ELSE "cold"

\* lines 219-234: the record of this iteration is appended
WarmRecord ==
    /\ wPc = "record"
    /\ wResults' = Append(wResults, [Iteration |-> wI,
                                      CacheState |-> CacheState(wI),
                                      Success |-> wErr = NoError,
                                      Error |-> wErr])
    /\ wErr' = NoError
    /\ wPc' = "after"
    /\ UNCHANGED <<wIterations, wI, wLog>>
    /\ UNCHANGED otherThanWarm

\* a removal after every iteration, the last included
RemoveAfterEvery(i, n) == i <= n

\* lines 235-239: docker rmi -f (and the delay) unless this was the last
\* iteration; line 207: i++
RemoveAfter(i, n) == i < n

WarmAfter ==
    /\ wPc = "after"
    /\ wLog' = IF RemoveAfter(wI, wIterations) THEN Append(wLog, "rmi") ELSE wLog
    /\ wI' = wI + 1
    /\ wPc' = "top"
    /\ UNCHANGED <<wIterations, wErr, wResults>>
    /\ UNCHANGED otherThanWarm

\* lines 207, 241-246: the loop ends, the results are printed
WarmDone ==
    /\ wPc = "top"
    /\ wI > wIterations
    /\ wPc' = "done"
    /\ UNCHANGED <<wIterations, wI, wErr, wLog, wResults>>
    /\ UNCHANGED otherThanWarm

WarmNext == WarmTop \/ WarmPull \/ WarmRecord \/ WarmAfter \/ WarmDone

\* ------------------------------------------------------------ printSummary
SummaryInputs == [Success : BOOLEAN, PullTimeMs : 0..MaxMs]

SumInit ==
    /\ sResults \in UNION {[1..k -> SummaryInputs] : k \in 0..MaxResults}
    /\ sPc = "loop"
    /\ sI = 0
    /\ sSuccess = 0
    /\ sMin = 0
    /\ sMax = 0
    /\ sSum = 0
    /\ sOut = <<>>

SumOff ==
    /\ sResults = <<>>
    /\ sPc = "off"
    /\ sI = 0
    /\ sSuccess = 0
    /\ sMin = 0
    /\ sMax = 0
    /\ sSum = 0
    /\ sOut = <<>>

\* lines 318-320
MinAfter(i, min, t) == IF i = 0 \/ t < min THEN t ELSE min

\* lines 321-323
MaxAfter(max, t) == IF t > max THEN t ELSE max

\* lines 315-326: one iteration of the loop over results
SumStep ==
    /\ sPc = "loop"
    /\ sI < Len(sResults)
    /\ LET r == sResults[sI + 1] IN
         IF r.Success
           THEN /\ sSuccess' = sSuccess + 1
                /\ sMin' = MinAfter(sI, sMin, r.PullTimeMs)
                /\ sMax' = MaxAfter(sMax, r.PullTimeMs)
                /\ sSum' = sSum + r.PullTimeMs
           ELSE UNCHANGED <<sSuccess, sMin, sMax, sSum>>
    /\ sI' = sI + 1
    /\ UNCHANGED <<sResults, sPc, sOut>>
    /\ UNCHANGED otherThanSum

\* lines 312, 327: the summary line; the average is float64(sum)/float64(success),
\* kept as the pair of its numerator and denominator
SumPrint ==
    /\ sPc = "loop"
    /\ sI = Len(sResults)
    /\ sOut' = [total |-> Len(sResults), succeeded |-> sSuccess, min |-> sMin,
                max |-> sMax, avgNum |-> sSum, avgDen |-> sSuccess]
    /\ sPc' = "done"
    /\ UNCHANGED <<sResults, sI, sSuccess, sMin, sMax, sSum>>
    /\ UNCHANGED otherThanSum

SumNext == SumStep \/ SumPrint

\* ----------------------------------------------------------- parseRegistry
RefChars == {"a", "/", ".", ":"}

DockerIo ==
    <<"d", "o", "c", "k", "e", "r", ".", "i", "o">>

\* lines 276-283: the index (from 0) of the first c in s, -1 when there is none
RECURSIVE indexFrom(_, _, _)
indexFrom(s, c, i) ==
    IF i >= Len(s) THEN -1
    ELSE IF s[i + 1] = c THEN i
    ELSE indexFrom(s, c, i + 1)

indexOf(s, c) == indexFrom(s, c, 0)

\* lines 285-287
isOfficialDockerHub(image) ==
    indexOf(image, ".") = -1 /\ indexOf(image, ":") = -1

\* lines 269-274
parseRegistry(image) ==
    LET idx == indexOf(image, "/") IN
    IF idx > 0 /\ ~isOfficialDockerHub(image)
      THEN SubSeq(image, 1, idx)
      ELSE DockerIo

RegInit ==
    /\ rImage \in UNION {[1..k -> RefChars] : k \in 0..MaxRefLen}
    /\ rPc = "call"
    /\ rOut = <<>>

RegOff ==
    /\ rImage = <<>>
    /\ rPc = "off"
    /\ rOut = <<>>

\* a caller (lines 69, 125, 165) classifies its image
CallParseRegistry ==
    /\ rPc = "call"
    /\ rOut' = parseRegistry(rImage)
    /\ rPc' = "done"
    /\ UNCHANGED rImage
    /\ UNCHANGED otherThanReg

RegNext == CallParseRegistry

\* ------------------------------------------------------- parseDockerOutput
PullingFsLayer ==
    <<"P", "u", "l", "l", "i", "n", "g", " ", "f", "s", " ", "l", "a", "y",
      "e", "r">>

DownloadedLine ==
    <<"D", "o", "w", "n", "l", "o", "a", "d", "e", "d", " ", "n", "e", "w",
      "e", "r", " ", "i", "m", "a", "g", "e", " ", "f", "o", "r", " ", "a">>

BytesLine == <<"1", "2", "B">>

OtherLine == <<"x">>

OutputLines == {PullingFsLayer, DownloadedLine, BytesLine, OtherLine}

\* the formats of lines 292, 295, 298
FormatDownloaded ==
    <<"D", "o", "w", "n", "l", "o", "a", "d", "e", "d", " ", "n", "e", "w",
      "e", "r", " ", "i", "m", "a", "g", "e", " ", "f", "o", "r", " ", "%",
      "*", "s">>

FormatBytes == <<"%", "d", "B">>

FormatLayer == PullingFsLayer

Digits == <<"0", "1", "2", "3", "4", "5", "6", "7", "8", "9">>

IsDigit(c) == \E d \in 1..Len(Digits) : Digits[d] = c

DigitValue(c) == (CHOOSE d \in 1..Len(Digits) : Digits[d] = c) - 1

\* the decimal number that starts at inp[ip]: its value and where it ends
RECURSIVE scanDigits(_, _, _)
scanDigits(inp, ip, acc) ==
    IF ip <= Len(inp) /\ IsDigit(inp[ip])
      THEN scanDigits(inp, ip + 1, 10 * acc + DigitValue(inp[ip]))
      ELSE [val |-> acc, next |-> ip]

\* fmt.Sscanf(inp, format, operands...) of the standard library: literal
\* characters of the format must match the input; a verb consumes the next
\* operand, and stops the scan when no operand is left or the input does not
\* hold the value; n counts the operands filled, val is the last value stored
RECURSIVE doScanf(_, _, _, _, _, _)
doScanf(inp, ip, format, fp, operands, got) ==
    IF fp > Len(format) THEN got
    ELSE IF format[fp] # "%"
      THEN IF ip <= Len(inp) /\ inp[ip] = format[fp]
             THEN doScanf(inp, ip + 1, format, fp + 1, operands, got)
             ELSE got
    ELSE IF got.n >= operands THEN got
    ELSE IF fp < Len(format) /\ format[fp + 1] = "d"
              /\ ip <= Len(inp) /\ IsDigit(inp[ip])
      THEN LET num == scanDigits(inp, ip, 0) IN
           doScanf(inp, num.next, format, fp + 2, operands,
                   [n |-> got.n + 1, val |-> num.val])
    ELSE got

Sscanf(inp, format, operands) ==
    doScanf(inp, 1, format, 1, operands, [n |-> 0, val |-> 0])

\* lines 307-309: strings.Split(s, "\n")
RECURSIVE splitFrom(_, _, _)
splitFrom(s, i, line) ==
    IF i > Len(s) THEN <<line>>
    ELSE IF s[i] = "\n" THEN <<line>> \o splitFrom(s, i + 1, <<>>)
    ELSE splitFrom(s, i + 1, Append(line, s[i]))

splitLines(s) == splitFrom(s, 1, <<>>)

\* the text a command writes: its lines, each but the last ended by a newline
RECURSIVE joinLines(_)
joinLines(ls) ==
    IF Len(ls) = 0 THEN <<>>
    ELSE IF Len(ls) = 1 THEN ls[1]
    ELSE ls[1] \o <<"\n">> \o joinLines(Tail(ls))

ScrapeInit ==
    /\ \E ls \in UNION {[1..k -> OutputLines] : k \in 0..MaxLines} :
          oOutput = joinLines(ls)
    /\ oPc = "split"
    /\ oLines = <<>>
    /\ oI = 0
    /\ oLayers = 0
    /\ oBytes = 0
    /\ oRes = [Bytes |-> 0, Layers |-> 0]

ScrapeOff ==
    /\ oOutput = <<>>
    /\ oPc = "off"
    /\ oLines = <<>>
    /\ oI = 0
    /\ oLayers = 0
    /\ oBytes = 0
    /\ oRes = [Bytes |-> 0, Layers |-> 0]

\* lines 290-291: the locals, and the lines of the output
ScrapeSplit ==
    /\ oPc = "split"
    /\ oLines' = splitLines(oOutput)
    /\ oPc' = "loop"
    /\ UNCHANGED <<oOutput, oI, oLayers, oBytes, oRes>>
    /\ UNCHANGED otherThanScrape

\* line 292: no operand follows the format
DownloadedCount(line) == Sscanf(line, FormatDownloaded, 0).n

\* line 295: one operand, &bytes
BytesScan(line) == Sscanf(line, FormatBytes, 1)

\* line 298: no operand follows the format
LayerCount(line) == Sscanf(line, FormatLayer, 0).n

\* lines 291-301: one iteration of the loop over the lines
ScrapeLine ==
    /\ oPc = "loop"
    /\ oI < Len(oLines)
    /\ LET line == oLines[oI + 1] IN
         IF DownloadedCount(line) > 0
           THEN UNCHANGED <<oBytes, oRes, oLayers>>
           ELSE /\ oBytes' = IF BytesScan(line).n = 1
                               THEN BytesScan(line).val ELSE oBytes
                /\ oRes' = IF BytesScan(line).n = 1
                             THEN [oRes EXCEPT !.Bytes = BytesScan(line).val]
                             ELSE oRes
                /\ oLayers' = IF LayerCount(line) > 0
                                THEN oLayers + 1 ELSE oLayers
    /\ oI' = oI + 1
    /\ UNCHANGED <<oOutput, oPc, oLines>>
    /\ UNCHANGED otherThanScrape

\* lines 302-304
ScrapeEnd ==
    /\ oPc = "loop"
    /\ oI = Len(oLines)
    /\ oRes' = IF oLayers > 0 THEN [oRes EXCEPT !.Layers = oLayers] ELSE oRes
    /\ oPc' = "done"
    /\ UNCHANGED <<oOutput, oLines, oI, oLayers, oBytes>>
    /\ UNCHANGED otherThanScrape

ScrapeNext == ScrapeSplit \/ ScrapeLine \/ ScrapeEnd

\* ---------------------------------------------------------- specifications
Init == BenchInit /\ WarmOff /\ SumOff /\ RegOff /\ ScrapeOff

Spec == Init /\ [][Next]_vars

InitWarm == BenchOff /\ WarmInit /\ SumOff /\ RegOff /\ ScrapeOff

SpecWarm == InitWarm /\ [][WarmNext]_vars

InitSum == BenchOff /\ WarmOff /\ SumInit /\ RegOff /\ ScrapeOff

SpecSum == InitSum /\ [][SumNext]_vars

InitReg == BenchOff /\ WarmOff /\ SumOff /\ RegInit /\ ScrapeOff

SpecReg == InitReg /\ [][RegNext]_vars

InitScrape == BenchOff /\ WarmOff /\ SumOff /\ RegOff /\ ScrapeInit

SpecScrape == InitScrape /\ [][ScrapeNext]_vars

\* the scheduler runs every goroutine that can take a step, and every command
\* ends: by its own exit, or killed at the deadline
Fairness ==
    /\ WF_vars(Main)
    /\ \A w \in 1..MaxImages : WF_vars(w \in Workers /\ Worker(w))

\* the runs checked for liveness
FairInit == Init /\ Len(images) <= MaxFairImages

FairSpec == FairInit /\ [][Next]_vars /\ Fairness

\* ------------------------------------------------------------------ claims
\* the workers between line 61 (slot taken) and line 90 (slot given back)
Holders ==
    {w \in Workers : pc[w] \in {"pull", "build", "seterr", "lock", "read",
                                "write", "unlock", "release"}}

\* how often image reference img occurs in sequence s
Occurrences(s, img) == Cardinality({i \in 1..Len(s) : s[i] = img})

ResultImages == [i \in 1..Len(results) |-> results[i].Image]

\* C1: with concurrency >= 1, the number of workers that hold a gate slot is
\* never more than concurrency
C1_GateBound ==
    concurrency >= 1 => Cardinality(Holders) <= concurrency

\* C1: the gate is full, and a worker waits for a slot
C1_Witness ==
    /\ concurrency = DefaultConcurrency
    /\ Cardinality(Holders) = concurrency
    /\ \E w \in Workers : pc[w] = "sem"

\* C2: when wg.Wait has returned, every worker is done and results holds
\* exactly one Result per input image (the same multiset of references)
C2_OneResultPerImage ==
    mainPc = "returned" =>
        /\ \A w \in Workers : pc[w] = "done"
        /\ Len(results) = Len(images)
        /\ \A img \in {images[i] : i \in 1..Len(images)}
                  \cup {results[i].Image : i \in 1..Len(results)} :
              Occurrences(ResultImages, img) = Occurrences(images, img)

\* C2: the barrier has returned, three results were appended in another order
\* than the images were given, some succeeded and some failed
C2_Witness ==
    /\ mainPc = "returned"
    /\ Len(images) = 3
    /\ results[1].Image # images[1]
    /\ \E i, j \in 1..Len(results) : results[i].Success /\ ~results[j].Success

\* C3: every Result appended to results has Success = true only with an empty
\* Error
C3_SuccessHasNoError ==
    \A i \in 1..Len(results) :
        results[i].Success => results[i].Error = NoError

\* C4: a worker whose command was killed at the deadline sets Success = false
\* and Error = the deadline-exceeded message, and the Result it built is the
\* one appended to results, after which it gives its slot back
C4_TimeoutResult ==
    [][\A w \in Workers :
          /\ (pc[w] = "seterr" /\ cmdErr[w] = KilledError /\ pc'[w] = "lock")
                => (res'[w].Success = FALSE /\ res'[w].Error = DeadlineExceeded)
          /\ (pc[w] = "write" /\ pc'[w] = "unlock")
                => results' = Append(results, res[w])
          /\ (pc[w] = "release" /\ pc'[w] = "exit")
                => semLen' = semLen - 1]_vars

\* C4: a command was killed at the deadline, its worker is about to set Error
C4_Witness ==
    \E w \in Workers : pc[w] = "seterr" /\ cmdErr[w] = KilledError

\* C5: with concurrency <= 0 no worker is ever dispatched
C5_RejectedBeforeDispatch ==
    concurrency <= 0 => (dispatched = 0 /\ \A w \in Workers : pc[w] = "idle")

\* C6: with concurrency >= 1, under fair scheduling the run reaches the state
\* where every worker is done (a worker gets there only through lines 61, 88
\* and 90: it took a slot, appended its result, gave the slot back), all
\* results are in, no slot is held and wg.Wait has returned
C6_EveryoneFinishes ==
    (concurrency >= 1) =>
        <>(/\ mainPc = "returned"
           /\ \A w \in Workers : pc[w] = "done"
           /\ Len(results) = Len(images)
           /\ semLen = 0)

\* C6: a run with one slot and more images than slots has ended
C6_Witness ==
    /\ concurrency = 1
    /\ Len(images) > concurrency
    /\ mainPc = "returned"
    /\ semLen = 0

WarmLabels == [k \in 1..Len(wResults) |-> wResults[k].CacheState]

\* C7 as stated: with 3 iterations, cold, warm, warm, and exactly two
\* removals: before iteration 1 and between iterations 2 and 3
C7_TwoRemovals ==
    (wPc = "done" /\ wIterations = 3) =>
        /\ WarmLabels = <<"cold", "warm", "warm">>
        /\ wLog = <<"rmi", "pull", "pull", "rmi", "pull">>

\* C7 amended: with 3 iterations, cold, warm, warm, and exactly three
\* removals: before iteration 1, between 1 and 2, between 2 and 3, none after
\* the last; with n >= 1 iterations there are n removals and the run ends on
\* a pull
C7_ThreeRemovals ==
    /\ (wPc = "done" /\ wIterations = 3) =>
          /\ WarmLabels = <<"cold", "warm", "warm">>
          /\ wLog = <<"rmi", "pull", "rmi", "pull", "rmi", "pull">>
    /\ (wPc = "done" /\ wIterations >= 1) =>
          /\ Occurrences(wLog, "rmi") = wIterations
          /\ Occurrences(wLog, "pull") = wIterations
          /\ wLog[Len(wLog)] = "pull"

\* C7: a warmup of 3 iterations has ended
C7_Witness ==
    wPc = "done" /\ wIterations = 3 /\ Len(wResults) = 3

Succeeded == {i \in 1..Len(sResults) : sResults[i].Success}

RECURSIVE SumOfTimes(_)
SumOfTimes(S) ==
    IF S = {} THEN 0
    ELSE LET i == CHOOSE x \in S : TRUE IN
         sResults[i].PullTimeMs + SumOfTimes(S \ {i})

\* C8: total is the number of results, succeeded the number of successful
\* ones, min and max the least and greatest PullTimeMs over the successful
\* ones, the average their sum divided by their number
C8_SummaryOverSuccessful ==
    sPc = "done" =>
        /\ sOut.total = Len(sResults)
        /\ sOut.succeeded = Cardinality(Succeeded)
        /\ sOut.avgNum = SumOfTimes(Succeeded)
        /\ sOut.avgDen = Cardinality(Succeeded)
        /\ Succeeded # {} =>
              /\ \E i \in Succeeded : sOut.min = sResults[i].PullTimeMs
              /\ \A i \in Succeeded : sOut.min <= sResults[i].PullTimeMs
              /\ \E i \in Succeeded : sOut.max = sResults[i].PullTimeMs
              /\ \A i \in Succeeded : sOut.max >= sResults[i].PullTimeMs

\* the part of the reference before its first "/"
HostPart == SubSeq(rImage, 1, indexOf(rImage, "/"))

\* C9: a reference with no "/", or with neither "." nor ":" before its first
\* "/", is classified as docker.io
C9_DefaultRegistry ==
    (rPc = "done"
       /\ (\/ indexOf(rImage, "/") = -1
           \/ \A k \in 1..Len(HostPart) : HostPart[k] \notin {".", ":"}))
        => rOut = DockerIo

LayerLines == {i \in 1..Len(oLines) : oLines[i] = PullingFsLayer}

\* C10: the layer count is the number of "Pulling fs layer" lines of the
\* output, and stays absent (zero) when there is none
C10_LayerCount ==
    oPc = "done" => oRes.Layers = Cardinality(LayerLines)

====
